---- MODULE Spec2Model ----
(***************************************************************************)
(* Model of the Keelan monitor daemon (src/src/utils/logging.ts): the      *)
(* control-socket handler (deploy / start / stop), the per-process         *)
(* supervision attached by setupProcessMonitoring, the periodic            *)
(* reconciliation pass and the daemon's own lifecycle, over the persisted  *)
(* keelan_ships table and the operating system's process table.            *)
(*                                                                         *)
(* The database driver is better-sqlite3 (src/src/database/db.ts), which   *)
(* runs every statement synchronously: an awaited query only yields to the *)
(* microtask queue, so a handler is interleaved with other events only at  *)
(* real waits (the 2 s grace timer of stop, the daemon's file I/O).        *)
(*                                                                         *)
(* Further parts: resolveLayer over keelan_crate (src/unnamed/part_007),   *)
(* the overlay mounts of core.ts, and the command-line handlers that build *)
(* and remove a crate and deploy, start, stop and remove a ship.           *)
(***************************************************************************)
EXTENDS Integers, Sequences, FiniteSets, TLC

\* ---------------------------------------------------------------- bounds
\* pids the OS hands out, and the instants of the wall clock
MaxPid == 2
MaxTime == 1

ShipNames == {"a"}
Pids == 1..MaxPid
\* control connections that can be open at once (two, so that handlers overlap)
Conns == {1, 2}

\* JavaScript null / undefined for each column type
NoPid == 0
NoTime == -1
NoCode == -1
\* exit codes of a ship process; a process ended by a signal has none (NoCode)
ExitCodes == {0}

\* the command of a deploy/start message, by what spawn() does with it:
\*   "ok"    the executable is spawned and gets a pid
\*   "noent" the executable cannot be spawned (ENOENT/EACCES): spawn returns
\*           a child without pid and emits 'error' on the next tick
\*   "empty" the command has no executable: spawn throws synchronously
Commands == {"ok", "noent", "empty"}

VARIABLES
    ships,        \* keelan_ships: name -> row, for the names that have a row
    alive,        \* OS process table: pids of live ship processes
    nextPid,      \* next pid the OS hands out
    handles,      \* child handles held by the daemon: pid -> supervision state
    conn,         \* control connections: c -> handler position and socket writes
    dstate,       \* daemon lifecycle: stopped, starting, running, stopping
    isRunning,    \* MonitorDaemon.isRunning
    pidFile,      \* the PID file exists
    timerOn,      \* MonitorDaemon.monitorInterval is set
    socketOpen,   \* the control socket is listening
    errorPending, \* an 'error' event of a child without listener is queued
    daemonExit,   \* exit code of the daemon process (NoCode: none, or not yet)
    now,          \* wall clock
    listenPending, \* listen(9876, 'localhost') was called and has not bound yet
    crates,       \* keelan_crate: name -> baseImage, for the names that have a row
    res,          \* the running resolveLayer call: frames, value, error
    mounted,      \* mount table below one merge path: mount points in use
    mop,          \* the running mountCrate / unmountCrate call and its position
    calls,        \* createAndMountOverlay calls returned since the root was clean
    runs,         \* mount commands that succeeded since the root was clean
    descr,        \* keelan_files: the rows, each a name and a checksum
    artifact,     \* keelan_crate: name -> digest and keelanFileId of the row
    dirs,         \* the upper, work and merge directories that exist, per root
    archive,      \* the file <name>.tar.gz of the crate, or none
    build,        \* the running buildHandler: position, whether the name was
                  \* taken, Keelanfile, exit code
    built,        \* the builds that completed: Keelanfile and digest stored
    cli,          \* the last remove command that ended: command and exit code
    starts,       \* start invocations that run side by side: root, position
    pidPath,      \* the PID file of `daemon start`: the pid it holds, or none
    daemons,      \* the daemon processes spawned so far, by pid: their state
    startCli,     \* `daemon start` invocations: position and spawned child
    logBuffer,    \* TailLog.logBuffer: the lines of the rolling view
    messages      \* the messages passed to TailLog.log so far, in call order

daemonVars == <<ships, alive, nextPid, handles, conn, dstate, isRunning, pidFile,
                timerOn, socketOpen, errorPending, daemonExit, now, listenPending>>
layerVars == <<crates, res>>
mountVars == <<mounted, mop, calls, runs>>

launchVars == <<pidPath, daemons, startCli>>
logVars == <<logBuffer, messages>>

cmdVars == <<descr, artifact, dirs, archive, build, built, cli, starts,
             launchVars, logVars>>
cmdVarsButDirs == <<descr, artifact, archive, build, built, cli, starts,
                    launchVars, logVars>>
cmdVarsButStarts == <<descr, artifact, dirs, archive, build, built, cli,
                      launchVars, logVars>>
cmdVarsButLaunch == <<descr, artifact, dirs, archive, build, built, cli, starts,
                      logVars>>
cmdVarsButLog == <<descr, artifact, dirs, archive, build, built, cli, starts,
                   launchVars>>

vars == <<daemonVars, layerVars, mountVars, cmdVars>>

\* ------------------------------------------------------------ persistence
Row(pid, status, started, stopped, code) ==
    [processId |-> pid, status |-> status, startedAt |-> started,
     stoppedAt |-> stopped, exitCode |-> code]

HasRow(n) == n \in DOMAIN ships

\* db.update(keelanShips).set(...).where(name = n): no row, no change
UpdateRow(tbl, n, row) ==
    IF n \in DOMAIN tbl THEN [tbl EXCEPT ![n] = row] ELSE tbl

\* process.kill(pid, 0): true unless ESRCH
isProcessRunning(pid) == pid \in alive

IdleConn ==
    [pc |-> "idle", ship |-> "none", force |-> FALSE,
     pid |-> NoPid, replies |-> <<>>, sigs |-> <<>>]

Reply(status, msg, pid) == [status |-> status, msg |-> msg, pid |-> pid]

\* the daemon process exists (its event loop runs callbacks)
ProcUp == dstate # "stopped"

\* the daemon can take the next event from its loop
CanRun == ProcUp /\ ~errorPending

\* every finished connection has been read and ended by its client
Collected == \A d \in Conns : conn[d].pc # "done"

\* a request arrives on a fresh connection: the lowest free one, and after the
\* clients of finished connections collected their responses
CanAccept(c) ==
    /\ CanRun /\ socketOpen /\ conn[c].pc = "idle"
    /\ \A d \in Conns : d < c => conn[d].pc # "idle"
    /\ Collected

DaemonInit ==
    /\ ships = <<>>
    /\ alive = {}
    /\ nextPid = 1
    /\ handles = <<>>
    /\ conn = [c \in Conns |-> IdleConn]
    /\ dstate = "stopped"
    /\ isRunning = FALSE
    /\ pidFile = FALSE
    /\ timerOn = FALSE
    /\ socketOpen = FALSE
    /\ errorPending = FALSE
    /\ daemonExit = NoCode
    /\ now = 0
    /\ listenPending = FALSE

Tick ==
    /\ now < MaxTime
    /\ now' = now + 1
    /\ UNCHANGED <<ships, alive, nextPid, handles, conn, dstate, isRunning,
                   pidFile, timerOn, socketOpen, errorPending, daemonExit>>
    /\ UNCHANGED <<listenPending, layerVars, mountVars, cmdVars>>

\* ------------------------------------------------------ spawn + supervision
\* spawn(executable, args, {detached}): the pid of the new child, NoPid when
\* the executable cannot be spawned (child.pid is undefined)
SpawnPid(cmd) == IF cmd = "ok" THEN nextPid ELSE NoPid

Handle(n) == [ship |-> n, probe |-> TRUE, exited |-> FALSE, code |-> NoCode]

\* setupProcessMonitoring(child, shipID, pid): returns without attaching
\* anything when pid is undefined; otherwise attaches the close and error
\* handlers and the 30 s health check
setupProcessMonitoring(h, n, pid) ==
    IF pid = NoPid THEN h ELSE (pid :> Handle(n)) @@ h

\* a finished handler: position and what it wrote to its socket
Done(c, pid, replies, sigs) ==
    [conn EXCEPT ![c] = [pc |-> "done", ship |-> "none", force |-> FALSE,
                         pid |-> pid, replies |-> replies, sigs |-> sigs]]

\* handleSocketData, message.type === 'deploy'
DeployReq(c, n, cmd) ==
    /\ CanAccept(c)
    /\ cmd = "ok" => nextPid <= MaxPid
    /\ LET pid == SpawnPid(cmd) IN
       IF cmd = "empty"
       THEN \* spawn throws ERR_INVALID_ARG_VALUE: outer catch replies
            /\ conn' = Done(c, NoPid,
                            <<Reply("error", "spawn_threw", NoPid)>>, <<>>)
            /\ UNCHANGED <<ships, alive, nextPid, handles, errorPending>>
       ELSE /\ alive' = IF pid = NoPid THEN alive ELSE alive \cup {pid}
            /\ nextPid' = IF pid = NoPid THEN nextPid ELSE nextPid + 1
            /\ errorPending' = (pid = NoPid)
            /\ IF HasRow(n)
               THEN \* UNIQUE(name) fails: the insert throws, outer catch replies
                    /\ conn' = Done(c, pid,
                                    <<Reply("error", "insert_threw", NoPid)>>, <<>>)
                    /\ UNCHANGED <<ships, handles>>
               ELSE /\ ships' = (n :> Row(pid, "running", now, NoTime, NoCode)) @@ ships
                    /\ handles' = setupProcessMonitoring(handles, n, pid)
                    /\ conn' = Done(c, pid,
                                    <<Reply("success", "deployed", pid)>>, <<>>)
    /\ UNCHANGED <<dstate, isRunning, pidFile, timerOn, socketOpen, daemonExit, now>>
    /\ UNCHANGED <<listenPending, layerVars, mountVars, cmdVars>>

\* a start row that keeps the stoppedAt and exitCode of the old row
StartRowKeepsExit(old, pid) ==
    [old EXCEPT !.processId = IF pid = NoPid THEN old.processId ELSE pid,
                !.status = "running", !.startedAt = now]

\* the row a start request writes: drizzle leaves a column out of the SET list
\* when its value is undefined, so a missing pid keeps the old processId
StartRow(old, pid) ==
    Row(IF pid = NoPid THEN old.processId ELSE pid, "running", now, NoTime, NoCode)

\* handleSocketData, message.type === 'start'
StartReq(c, n, cmd) ==
    /\ CanAccept(c)
    /\ cmd = "ok" => nextPid <= MaxPid
    /\ LET pid == SpawnPid(cmd) IN
       IF cmd = "empty"
       THEN /\ conn' = Done(c, NoPid,
                            <<Reply("error", "spawn_threw", NoPid)>>, <<>>)
            /\ UNCHANGED <<ships, alive, nextPid, handles, errorPending>>
       ELSE /\ alive' = IF pid = NoPid THEN alive ELSE alive \cup {pid}
            /\ nextPid' = IF pid = NoPid THEN nextPid ELSE nextPid + 1
            /\ errorPending' = (pid = NoPid)
            /\ ships' = IF HasRow(n) THEN UpdateRow(ships, n, StartRow(ships[n], pid))
                        ELSE ships
            /\ handles' = setupProcessMonitoring(handles, n, pid)
            /\ conn' = Done(c, pid,
                            <<Reply("success", "started", pid)>>, <<>>)
    /\ UNCHANGED <<dstate, isRunning, pidFile, timerOn, socketOpen, daemonExit, now>>
    /\ UNCHANGED <<listenPending, layerVars, mountVars, cmdVars>>

\* ------------------------------------------------------------------- stop
\* .set({status: "stopped", stoppedAt: now}): the "already stopped" updates
StoppedRow(old) == [old EXCEPT !.status = "stopped", !.stoppedAt = now]

\* .set({status: "stopped", stoppedAt: now, exitCode: null}): the update after
\* the grace period
StopUpdateRow(old) ==
    [old EXCEPT !.status = "stopped", !.stoppedAt = now, !.exitCode = NoCode]

Sig(sig, pid, outcome) == [sig |-> sig, pid |-> pid, res |-> outcome]

\* the guard of the "not running" block of stop
NotRunningBranch(ship) == ship.processId = NoPid \/ ship.status # "running"

\* handleSocketData, message.type === 'stop', up to the grace-period timer
StopReq(c, n, force) ==
    /\ CanAccept(c)
    /\ IF ~HasRow(n)
       THEN /\ conn' = Done(c, NoPid,
                            <<Reply("error", "not_found", NoPid)>>, <<>>)
            /\ UNCHANGED ships
       ELSE LET ship == ships[n]
                pid == ship.processId IN
            IF NotRunningBranch(ship)
            THEN IF pid # NoPid /\ ~isProcessRunning(pid)
                 THEN /\ ships' = UpdateRow(ships, n, StoppedRow(ship))
                      /\ conn' = Done(c, NoPid,
                             <<Reply("success", "already_stopped_updated", NoPid)>>, <<>>)
                 ELSE /\ conn' = Done(c, NoPid,
                             <<Reply("error", "not_running", NoPid)>>, <<>>)
                      /\ UNCHANGED ships
            ELSE IF isProcessRunning(pid)
                 THEN \* SIGTERM delivered; the handler waits 2 s
                      /\ conn' = [conn EXCEPT ![c] =
                            [pc |-> "grace", ship |-> n,
                             force |-> force, pid |-> pid, replies |-> <<>>,
                             sigs |-> <<Sig("SIGTERM", pid, "ok")>>]]
                      /\ UNCHANGED ships
                 ELSE \* process.kill throws ESRCH: the catch block
                      /\ ships' = UpdateRow(ships, n, StoppedRow(ship))
                      /\ conn' = Done(c, pid,
                             <<Reply("success", "already_stopped", NoPid)>>,
                             <<Sig("SIGTERM", pid, "ESRCH")>>)
    /\ UNCHANGED <<alive, nextPid, handles, dstate, isRunning, pidFile, timerOn,
                   socketOpen, errorPending, daemonExit, now>>
    /\ UNCHANGED <<listenPending, layerVars, mountVars, cmdVars>>

\* the OS ends process p: the daemon's handle, if it holds one, gets the exit
MarkExited(h, p, code) ==
    IF p \in DOMAIN h THEN [h EXCEPT ![p].exited = TRUE, ![p].code = code] ELSE h

\* NoForceOutcome without its return: the handler falls through to the update
NoForceOutcomeFallsThrough(c) ==
    /\ ships' = IF HasRow(conn[c].ship)
                THEN UpdateRow(ships, conn[c].ship, StopUpdateRow(ships[conn[c].ship]))
                ELSE ships
    /\ conn' = Done(c, conn[c].pid,
                    <<Reply("error", "use_force", NoPid)>>, conn[c].sigs)
    /\ UNCHANGED <<alive, handles>>

\* what stop does without force when the process survived the grace period
NoForceOutcome(c) ==
    /\ conn' = Done(c, conn[c].pid,
                    <<Reply("error", "use_force", NoPid)>>, conn[c].sigs)
    /\ UNCHANGED <<ships, alive, handles>>

\* handleSocketData, message.type === 'stop', after the grace-period timer
StopAfterGrace(c) ==
    /\ CanRun
    /\ conn[c].pc = "grace"
    /\ LET n == conn[c].ship
           pid == conn[c].pid
           upd(f(_)) == IF HasRow(n) THEN UpdateRow(ships, n, f(ships[n])) ELSE ships
       IN
       IF isProcessRunning(pid)
       THEN IF conn[c].force
            THEN \/ \* SIGKILL delivered
                    /\ alive' = alive \ {pid}
                    /\ handles' = MarkExited(handles, pid, NoCode)
                    /\ ships' = upd(StopUpdateRow)
                    /\ conn' = Done(c, pid,
                           <<Reply("success", "stopped", NoPid)>>,
                           Append(conn[c].sigs, Sig("SIGKILL", pid, "ok")))
                 \/ \* the process ends between the probe and the kill: ESRCH
                    /\ alive' = alive \ {pid}
                    /\ handles' = MarkExited(handles, pid, NoCode)
                    /\ ships' = upd(StoppedRow)
                    /\ conn' = Done(c, pid,
                           <<Reply("success", "already_stopped", NoPid)>>,
                           Append(conn[c].sigs, Sig("SIGKILL", pid, "ESRCH")))
            ELSE NoForceOutcome(c)
       ELSE /\ ships' = upd(StopUpdateRow)
            /\ conn' = Done(c, pid,
                   <<Reply("success", "stopped", NoPid)>>, conn[c].sigs)
            /\ UNCHANGED <<alive, handles>>
    /\ UNCHANGED <<nextPid, dstate, isRunning, pidFile, timerOn, socketOpen,
                   errorPending, daemonExit, now>>
    /\ UNCHANGED <<listenPending, layerVars, mountVars, cmdVars>>

\* a well-formed message whose type is none of deploy/start/stop: no branch
\* of the if/else chain is taken and nothing is written
OtherReq(c) ==
    /\ CanAccept(c)
    /\ conn' = Done(c, NoPid, <<>>, <<>>)
    /\ UNCHANGED <<ships, alive, nextPid, handles, dstate, isRunning, pidFile,
                   timerOn, socketOpen, errorPending, daemonExit, now>>
    /\ UNCHANGED <<listenPending, layerVars, mountVars, cmdVars>>

\* a payload JSON.parse rejects: the outer catch replies
MalformedReq(c) ==
    /\ CanAccept(c)
    /\ conn' = Done(c, NoPid,
                    <<Reply("error", "parse_error", NoPid)>>, <<>>)
    /\ UNCHANGED <<ships, alive, nextPid, handles, dstate, isRunning, pidFile,
                   timerOn, socketOpen, errorPending, daemonExit, now>>
    /\ UNCHANGED <<listenPending, layerVars, mountVars, cmdVars>>

\* the client reads the response (or gives up) and ends the connection
ConnClose(c) ==
    /\ conn[c].pc = "done"
    /\ conn' = [conn EXCEPT ![c] = IdleConn]
    /\ UNCHANGED <<ships, alive, nextPid, handles, dstate, isRunning, pidFile,
                   timerOn, socketOpen, errorPending, daemonExit, now>>
    /\ UNCHANGED <<listenPending, layerVars, mountVars, cmdVars>>

\* ------------------------------------------------------------ supervision
\* a ship process ends on its own or by a signal's default action
ProcExit(p, code) ==
    /\ p \in alive
    /\ alive' = alive \ {p}
    /\ handles' = MarkExited(handles, p, code)
    /\ UNCHANGED <<ships, nextPid, conn, dstate, isRunning, pidFile, timerOn,
                   socketOpen, errorPending, daemonExit, now>>
    /\ UNCHANGED <<listenPending, layerVars, mountVars, cmdVars>>

\* child.on('close'): .set({status: "stopped", stoppedAt: now, exitCode: code})
CloseRow(old, code) ==
    [old EXCEPT !.status = "stopped", !.stoppedAt = now, !.exitCode = code]

CloseHandler(p) ==
    /\ CanRun
    /\ p \in DOMAIN handles
    /\ handles[p].exited
    /\ LET n == handles[p].ship IN
       ships' = IF HasRow(n) THEN UpdateRow(ships, n, CloseRow(ships[n], handles[p].code))
                ELSE ships
    /\ handles' = [q \in DOMAIN handles \ {p} |-> handles[q]]
    /\ UNCHANGED <<alive, nextPid, conn, dstate, isRunning, pidFile, timerOn,
                   socketOpen, errorPending, daemonExit, now>>
    /\ UNCHANGED <<listenPending, layerVars, mountVars, cmdVars>>

\* the 30 s health check of one handle, when it finds the process gone
HealthCheck(p) ==
    /\ CanRun
    /\ p \in DOMAIN handles
    /\ handles[p].probe
    /\ ~isProcessRunning(p)
    /\ LET n == handles[p].ship IN
       ships' = IF HasRow(n) THEN UpdateRow(ships, n, StopUpdateRow(ships[n]))
                ELSE ships
    /\ handles' = [handles EXCEPT ![p].probe = FALSE]
    /\ UNCHANGED <<alive, nextPid, conn, dstate, isRunning, pidFile, timerOn,
                   socketOpen, errorPending, daemonExit, now>>
    /\ UNCHANGED <<listenPending, layerVars, mountVars, cmdVars>>

\* ---------------------------------------------------------- reconciliation
\* the test without its probe: every row selected as running counts as dead
FoundDeadWithoutProbe(ship) == ship.status = "running"

\* the test runMonitoringCycle applies to each row selected as running
FoundDead(ship) ==
    ship.status = "running" /\ ship.processId # NoPid /\ ~isProcessRunning(ship.processId)

\* runMonitoringCycle over the whole table
Reconcile(tbl) ==
    [n \in DOMAIN tbl |-> IF FoundDead(tbl[n]) THEN StoppedRow(tbl[n]) ELSE tbl[n]]

\* the setInterval callback
MonitorTick ==
    /\ CanRun
    /\ timerOn
    /\ ships' = Reconcile(ships)
    /\ UNCHANGED <<alive, nextPid, handles, conn, dstate, isRunning, pidFile,
                   timerOn, socketOpen, errorPending, daemonExit, now>>
    /\ UNCHANGED <<listenPending, layerVars, mountVars, cmdVars>>

\* -------------------------------------------------------- daemon lifecycle
\* handlers waiting on a timer die with the daemon process: their connections
\* end without a response
Abort(cs) ==
    [c \in Conns |-> IF cs[c].pc = "grace" THEN IdleConn ELSE cs[c]]

\* `keelan daemon start`: a new daemon process, constructor run
DaemonLaunch ==
    /\ dstate = "stopped"
    /\ dstate' = "starting"
    /\ daemonExit' = NoCode
    /\ UNCHANGED <<ships, alive, nextPid, handles, conn, isRunning, pidFile,
                   timerOn, socketOpen, errorPending, now, listenPending>>
    /\ UNCHANGED <<layerVars, mountVars, cmdVars>>

\* MonitorDaemon.start(): PID file, isRunning, the initial reconciliation
\* pass, the timer, "started successfully", and last setupSocketServer, whose
\* listen(9876, 'localhost') binds only after the host name is looked up
DaemonStart ==
    /\ dstate = "starting"
    /\ pidFile' = TRUE
    /\ isRunning' = TRUE
    /\ ships' = Reconcile(ships)
    /\ timerOn' = TRUE
    /\ listenPending' = TRUE
    /\ dstate' = "running"
    /\ UNCHANGED <<alive, nextPid, handles, conn, socketOpen, errorPending,
                   daemonExit, now>>
    /\ UNCHANGED <<layerVars, mountVars, cmdVars>>

\* the server is bound: the listen callback
SocketListening ==
    /\ CanRun
    /\ listenPending
    /\ listenPending' = FALSE
    /\ socketOpen' = TRUE
    /\ UNCHANGED <<ships, alive, nextPid, handles, conn, dstate, isRunning,
                   pidFile, timerOn, errorPending, daemonExit, now>>
    /\ UNCHANGED <<layerVars, mountVars, cmdVars>>

\* SIGINT / SIGTERM (the stop command sends SIGTERM): MonitorDaemon.stop() up
\* to the await of removePidFile. The log stream is ended and then written
\* to; the server is closed only if it is listening already.
DaemonSignal ==
    /\ CanRun
    /\ isRunning
    /\ isRunning' = FALSE
    /\ timerOn' = FALSE
    /\ socketOpen' = FALSE
    /\ dstate' = "stopping"
    /\ UNCHANGED <<ships, alive, nextPid, handles, conn, pidFile, errorPending,
                   daemonExit, now, listenPending>>
    /\ UNCHANGED <<layerVars, mountVars, cmdVars>>

\* MonitorDaemon.stop() after removePidFile: process.exit(0)
DaemonStopped ==
    /\ CanRun
    /\ dstate = "stopping"
    /\ pidFile' = FALSE
    /\ dstate' = "stopped"
    /\ daemonExit' = 0
    /\ handles' = <<>>
    /\ conn' = Abort(conn)
    /\ socketOpen' = FALSE
    /\ listenPending' = FALSE
    /\ UNCHANGED <<ships, alive, nextPid, isRunning, timerOn, errorPending, now>>
    /\ UNCHANGED <<layerVars, mountVars, cmdVars>>

\* process.on('uncaughtException'): stop() is called and not awaited, then
\* process.exit(1). stop() run here suspends at removePidFile, whose unlink
\* has not been issued when the process exits; a stop() already suspended
\* there (removal in flight) may or may not have removed the file.
CrashExit(removed) ==
    /\ removed => dstate = "stopping"
    /\ pidFile' = (pidFile /\ ~removed)
    /\ errorPending' = FALSE
    /\ isRunning' = FALSE
    /\ timerOn' = FALSE
    /\ socketOpen' = FALSE
    /\ listenPending' = FALSE
    /\ dstate' = "stopped"
    /\ daemonExit' = 1
    /\ handles' = <<>>
    /\ conn' = Abort(conn)
    /\ UNCHANGED <<ships, alive, nextPid, now>>
    /\ UNCHANGED <<layerVars, mountVars, cmdVars>>

\* the 'error' event of a child nobody listens to is thrown on the next tick
UncaughtException ==
    /\ ProcUp
    /\ errorPending
    /\ \E removed \in BOOLEAN : CrashExit(removed)

\* the port is taken: the server's 'error' handler logs and rethrows
SocketBindError ==
    /\ CanRun
    /\ listenPending
    /\ \E removed \in BOOLEAN : CrashExit(removed)

\* stop() wrote to the log stream after ending it: the stream's 'error' event
\* (write after end) has no listener and is thrown, if it comes before
\* process.exit(0)
LogStreamError ==
    /\ CanRun
    /\ dstate = "stopping"
    /\ \E removed \in BOOLEAN : CrashExit(removed)

\* ------------------------------------------------------- layer resolution
\* resolveLayer(name), as the chain of its recursive calls: `stack` holds the
\* name parameter of every call that has not returned, the innermost last
RootLayer == "debian"
LayerNames == {"x", "y", "z"}
\* frames a resolution may hold
MaxDepth == 5

IdleRes ==
    [pc |-> "idle", name |-> "none", stack |-> <<>>, value |-> <<>>,
     error |-> "none", lowerdir |-> <<>>]

\* every content of keelan_crate over LayerNames: each name without a row, or
\* with a row whose baseImage is any layer name or the default image
AllCrates ==
    UNION {[S -> LayerNames \cup {RootLayer}] : S \in SUBSET LayerNames}

\* baseLayers.includes(name)
Includes(layers, name) == \E i \in 1..Len(layers) : layers[i] = name

\* the layer pushed at the other end of the list
UnshiftAtEnd(layers, name) ==
    IF Includes(layers, name) THEN layers ELSE Append(layers, name)

\* if (!baseLayers.includes(name)) baseLayers.unshift(name)
Unshift(layers, name) ==
    IF Includes(layers, name) THEN layers ELSE <<name>> \o layers

\* the parameter of the outermost call
NotFoundNameOutermost(stack) == stack[1]

\* the name in Error(`Layer ${name} not found`): the parameter of the call
\* that throws
NotFoundName(stack) == stack[Len(stack)]

Pop(stack) == SubSeq(stack, 1, Len(stack) - 1)

\* a caller (build, deploy, ship start) calls resolveLayer(name)
ResolveCall(name) ==
    /\ res.pc = "idle"
    /\ res' = [pc |-> "call", name |-> name, stack |-> <<name>>,
               value |-> <<>>, error |-> "none", lowerdir |-> <<>>]
    /\ UNCHANGED <<crates, daemonVars, mountVars, cmdVars>>

\* the innermost call runs up to its recursive call: the default image
\* returns [name]; a name without a row throws, and the exception unwinds
\* every frame; otherwise resolveLayer(result[0].baseImage) is called
ResolveEnter ==
    /\ res.pc = "call"
    /\ LET name == res.stack[Len(res.stack)]
           rest == Pop(res.stack) IN
       IF name = RootLayer
       THEN res' = [res EXCEPT !.value = <<name>>, !.stack = rest,
                               !.pc = IF rest = <<>> THEN "done" ELSE "return"]
       ELSE IF name \notin DOMAIN crates
       THEN res' = [res EXCEPT !.pc = "failed", !.stack = <<>>,
                               !.error = NotFoundName(res.stack)]
       ELSE /\ Len(res.stack) < MaxDepth
            /\ res' = [res EXCEPT !.stack = Append(res.stack, crates[name])]
    /\ UNCHANGED <<crates, daemonVars, mountVars, cmdVars>>

\* the innermost pending call gets its base layers back and returns
ResolveReturn ==
    /\ res.pc = "return"
    /\ LET name == res.stack[Len(res.stack)]
           rest == Pop(res.stack) IN
       res' = [res EXCEPT !.value = Unshift(res.value, name), !.stack = rest,
                          !.pc = IF rest = <<>> THEN "done" ELSE "return"]
    /\ UNCHANGED <<crates, daemonVars, mountVars, cmdVars>>

\* a string is the sequence of its pieces: path components, "/" and the
\* separator of a path list
PathSep == ":"

\* `${PATHS.crates}/${dir}`
LayerPath(dir) == <<"crates", "/", dir>>

\* the loop of createAndMountOverlay: lowerdir += dir_path + ":"
RECURSIVE Joined(_)
Joined(layers) ==
    IF layers = <<>> THEN <<>>
    ELSE LayerPath(Head(layers)) \o <<PathSep>> \o Joined(Tail(layers))

\* a slice that keeps the whole string
SliceNothing(s) == s

\* lowerdir.slice(0, -1)
SliceLast(s) == IF s = <<>> THEN s ELSE SubSeq(s, 1, Len(s) - 1)

\* the caller passes the resolved layers to createAndMountOverlay, which
\* composes lowerdir and returns it
ComposeLowerdir ==
    /\ res.pc = "done"
    /\ res' = [res EXCEPT !.pc = "composed",
                          !.lowerdir = SliceLast(Joined(res.value))]
    /\ UNCHANGED <<crates, daemonVars, mountVars, cmdVars>>

\* ----------------------------------------------------------- overlay mounts
\* the roots (merge paths) in use: one of a crate, one of a ship
Roots == {"crate", "ship"}
\* the mount points of one root: the overlay at merge_path and the virtual
\* filesystems below it
MountPoints == {"merge", "proc", "dev", "sys", "pts"}
\* the directories of one root: <name>, <name>_work, <name>_merge
Dirs == {"upper", "work", "merge"}
Vfs == {"proc", "dev", "sys", "pts"}
\* createAndMountOverlay calls counted in a row on one root
MaxCalls == 2
\* calls were not made in a row from a clean root: one threw, or unmount ran
Broken == -1

\* an order that binds the virtual filesystems before it mounts the overlay
MountOrderVfsFirst == <<"proc", "dev", "sys", "pts", "merge">>

\* the commands of mountCrate, in its order
MountOrder == <<"merge", "proc", "dev", "sys", "pts">>

\* the umount commands of unmountCrate's first try block, in its order
UnmountVfsOrder == <<"pts", "proc", "dev", "sys">>

IdleOp == [op |-> "none", root |-> "none", pc |-> 0, threw |-> FALSE]
NoRuns == [p \in MountPoints |-> 0]

\* a check that never sees the mount
checkMountpointNever(r) == FALSE

\* mountpoint -q on the merge path of root r
checkMountpoint(r) == "merge" \in mounted[r]

\* what a returned call adds to the count of calls made in a row
Returned(n) == IF n = Broken THEN Broken ELSE n + 1

\* createAndMountOverlay -> mountCrate, up to the first mount command: the
\* three directories are created (mkdir -p), and on a mounted merge path
\* mountCrate returns at once
MountCall(r) ==
    /\ mop.op = "none"
    /\ dirs' = [dirs EXCEPT ![r] = Dirs]
    /\ calls[r] < MaxCalls
    /\ \A p \in MountPoints : runs[r][p] < MaxCalls
    /\ LET fresh == mounted[r] = {}
           n == IF fresh THEN 0 ELSE calls[r] IN
       IF checkMountpoint(r)
       THEN /\ mop' = IdleOp
            /\ calls' = [calls EXCEPT ![r] = Returned(n)]
            /\ UNCHANGED runs
       ELSE /\ mop' = [op |-> "mount", root |-> r, pc |-> 1, threw |-> FALSE]
            /\ calls' = [calls EXCEPT ![r] = n]
            /\ runs' = IF fresh THEN [runs EXCEPT ![r] = NoRuns] ELSE runs
    /\ UNCHANGED <<mounted, daemonVars, layerVars, cmdVarsButDirs>>

\* one mount command of mountCrate (execSync): a failure throws out of
\* mountCrate, which catches nothing
MountStep(ok) ==
    /\ mop.op = "mount"
    /\ LET r == mop.root
           p == MountOrder[mop.pc]
           last == mop.pc = Len(MountOrder) IN
       IF ok
       THEN /\ mounted' = [mounted EXCEPT ![r] = mounted[r] \cup {p}]
            /\ runs' = [runs EXCEPT ![r][p] = runs[r][p] + 1]
            /\ mop' = IF last THEN IdleOp ELSE [mop EXCEPT !.pc = mop.pc + 1]
            /\ calls' = IF last THEN [calls EXCEPT ![r] = Returned(calls[r])]
                        ELSE calls
       ELSE /\ mop' = [op |-> "none", root |-> "none", pc |-> 0, threw |-> TRUE]
            /\ calls' = [calls EXCEPT ![r] = Broken]
            /\ UNCHANGED <<mounted, runs>>
    /\ UNCHANGED <<daemonVars, layerVars, cmdVars>>

\* unmountCrate up to the first umount command: on a merge path that is not
\* mounted it returns at once
UnmountCall(r) ==
    /\ mop.op = "none"
    /\ calls' = [calls EXCEPT ![r] = Broken]
    /\ mop' = IF checkMountpoint(r)
              THEN [op |-> "unmount", root |-> r, pc |-> 1, threw |-> FALSE]
              ELSE IdleOp
    /\ UNCHANGED <<mounted, runs, daemonVars, layerVars, cmdVars>>

\* umount of p below root r succeeds: p is mounted, nothing is mounted below
\* it (else the kernel answers busy), and nothing else keeps it busy (free)
UmountOk(r, p, free) ==
    /\ free
    /\ p \in mounted[r]
    /\ p = "dev" => "pts" \notin mounted[r]
    /\ p = "merge" => mounted[r] \cap Vfs = {}

\* one umount of the first try block: a failure is caught and skips the rest
\* of the block
UnmountVfsStep(free) ==
    /\ mop.op = "unmount"
    /\ mop.pc <= Len(UnmountVfsOrder)
    /\ LET r == mop.root
           p == UnmountVfsOrder[mop.pc] IN
       IF UmountOk(r, p, free)
       THEN /\ mounted' = [mounted EXCEPT ![r] = mounted[r] \ {p}]
            /\ mop' = [mop EXCEPT !.pc = mop.pc + 1]
       ELSE /\ mop' = [mop EXCEPT !.pc = Len(UnmountVfsOrder) + 1]
            /\ UNCHANGED mounted
    /\ UNCHANGED <<calls, runs, daemonVars, layerVars, cmdVars>>

\* the umount of the overlay, in its own try block: unmountCrate returns
UnmountOverlayStep(free) ==
    /\ mop.op = "unmount"
    /\ mop.pc = Len(UnmountVfsOrder) + 1
    /\ LET r == mop.root IN
       mounted' = IF UmountOk(r, "merge", free)
                  THEN [mounted EXCEPT ![r] = mounted[r] \ {"merge"}]
                  ELSE mounted
    /\ mop' = IdleOp
    /\ UNCHANGED <<calls, runs, daemonVars, layerVars, cmdVars>>

\* ----------------------------------------------------- crate build, removal
\* the crate the command line builds and removes, and the root of its merge
\* path
CrateName == "x"
CrateRoot == "crate"

\* build_steps of a Keelanfile.yml, each step by its kind:
\*   "cmd"   execute_command with a command
\*   "copy"  copy_files with source and destination
\*   "nocmd" execute_command without a command (copy_files without source or
\*           destination ends the same way)
Keelanfiles == {<<"cmd">>, <<"cmd", "copy">>, <<"cmd", "nocmd">>}
NoFile == <<>>
NoArchive == <<>>

\* SHA-256, taken as free of collisions
Sha256(bytes) == <<"sha256", bytes>>

\* tar -czf of the upper directory: the archive holds every file with its
\* contents and its modification time
Tar(tree, mtime) == [tree |-> tree, mtime |-> mtime]

\* checkName: keelan_files has a row of that name
checkName(name) == \E f \in descr : f.name = name

IdleBuild ==
    [pc |-> "idle", taken |-> FALSE, file |-> NoFile, step |-> 0,
     mtime |-> NoTime, exit |-> NoCode]
Exited(code) == [build EXCEPT !.pc = "exited", !.exit = code]
BuildIdle == build.pc \in {"idle", "exited"}

\* mountCrate on the mount table m of one root, its first k commands
\* succeeding: a mounted merge path is left alone
mountCrate(m, k) ==
    IF "merge" \in m THEN m ELSE m \cup {MountOrder[i] : i \in 1..k}
\* a mount command that fails without an exception
mountCrateNeverThrows(m, k) == FALSE

\* mountCrate throws: a mount command failed (execSync)
mountCrateThrows(m, k) == "merge" \notin m /\ k < Len(MountOrder)

\* umount of p succeeds on the mount table m
UmountOkIn(m, p, free) ==
    /\ free
    /\ p \in m
    /\ p = "dev" => "pts" \notin m
    /\ p = "merge" => m \cap Vfs = {}

\* the first try block of unmountCrate from its i-th command on
RECURSIVE unmountVfs(_, _, _)
unmountVfs(m, i, free) ==
    IF i > Len(UnmountVfsOrder) THEN m
    ELSE IF UmountOkIn(m, UnmountVfsOrder[i], free)
         THEN unmountVfs(m \ {UnmountVfsOrder[i]}, i + 1, free)
         ELSE m

\* unmountCrate on the mount table m of one root, run as a whole
unmountCrate(m, free) ==
    IF "merge" \notin m THEN m
    ELSE LET v == unmountVfs(m, 1, free) IN
         IF UmountOkIn(v, "merge", free) THEN v \ {"merge"} ELSE v

\* rm -rf of <name>, <name>_work, <name>_merge with mount table m: the
\* directory of a mount point cannot be removed, and that rm fails
rmDirs(d, m) == IF m = {} THEN {} ELSE d \cap {"merge"}
rmThrows(d, m) == m # {} /\ "merge" \in d

\* removeCrate / removeShip on root r: unmountCrate, then the three rm
\* commands; an error is swallowed with force
removeMounted(r, free) == unmountCrate(mounted[r], free)
removeDirs(r, free) == rmDirs(dirs[r], removeMounted(r, free))
removeThrows(r, force, free) ==
    ~force /\ rmThrows(dirs[r], removeMounted(r, free))

\* delete from keelan_files where name = name
NamedRows(name) == {f \in descr : f.name = name}

\* removeCrateHandler({name: CrateName, force}): without a descriptor of
\* the name it returns at once; a throw of removeCrate ends in exit(1)
removeCrateThrows(force, free) ==
    checkName(CrateName) /\ removeThrows(CrateRoot, force, free)

removeCrateHandler(force, free) ==
    IF ~checkName(CrateName)
    THEN UNCHANGED <<mounted, dirs, archive, descr, crates, artifact>>
    ELSE /\ mounted' = [mounted EXCEPT ![CrateRoot] = removeMounted(CrateRoot, free)]
         /\ dirs' = [dirs EXCEPT ![CrateRoot] = removeDirs(CrateRoot, free)]
         /\ IF removeThrows(CrateRoot, force, free)
            THEN UNCHANGED <<archive, descr, crates, artifact>>
            ELSE /\ archive' = NoArchive
                 /\ descr' = descr \ NamedRows(CrateName)
                 /\ crates' = [n \in DOMAIN crates \ {CrateName} |-> crates[n]]
                 /\ artifact' = [n \in DOMAIN artifact \ {CrateName} |-> artifact[n]]

\* keelan remove crate <name> [--force]
RemoveCrateCli(force, free) ==
    /\ BuildIdle
    /\ mop.op = "none"
    /\ removeCrateHandler(force, free)
    /\ cli' = [cmd |-> "remove-crate", force |-> force,
               exit |-> IF removeCrateThrows(force, free) THEN 1 ELSE 0]
    /\ UNCHANGED <<daemonVars, res, mop, calls, runs, build, built, starts,
                   launchVars, logVars>>

\* buildHandler up to the return of createAndMountOverlay: a taken name has
\* its directories removed (removeCrate, no force), the base image is
\* resolved, the directories are created and the overlay mounted; a throw
\* ends the process with exit code 1
BuildStart(file, free, k) ==
    /\ BuildIdle
    /\ mop.op = "none"
    /\ LET taken == checkName(CrateName)
           m1 == IF taken THEN removeMounted(CrateRoot, free) ELSE mounted[CrateRoot]
           d1 == IF taken THEN removeDirs(CrateRoot, free) ELSE dirs[CrateRoot]
           started == [pc |-> "descriptor", taken |-> taken, file |-> file,
                       step |-> 0, mtime |-> NoTime, exit |-> NoCode] IN
       IF taken /\ removeThrows(CrateRoot, FALSE, free)
       THEN /\ mounted' = [mounted EXCEPT ![CrateRoot] = m1]
            /\ dirs' = [dirs EXCEPT ![CrateRoot] = d1]
            /\ build' = [started EXCEPT !.pc = "exited", !.exit = 1]
       ELSE /\ mounted' = [mounted EXCEPT ![CrateRoot] = mountCrate(m1, k)]
            /\ dirs' = [dirs EXCEPT ![CrateRoot] = Dirs]
            /\ build' = IF mountCrateThrows(m1, k)
                        THEN [started EXCEPT !.pc = "exited", !.exit = 1]
                        ELSE started
    /\ UNCHANGED <<daemonVars, layerVars, mop, calls, runs, descr, artifact,
                   archive, built, cli, starts,
                   launchVars, logVars>>

\* writeCrateFile(name, content): the insert fails on a checksum that a row
\* holds already (unique), and the rejection ends the process
BuildDescriptor ==
    /\ build.pc = "descriptor"
    /\ IF \E f \in descr : f.checksum = Sha256(build.file)
       THEN /\ build' = Exited(1)
            /\ UNCHANGED descr
       ELSE /\ descr' = descr \cup {[name |-> CrateName, checksum |-> Sha256(build.file)]}
            /\ build' = [build EXCEPT !.pc = "steps", !.step = 1]
    /\ UNCHANGED <<daemonVars, layerVars, mountVars, artifact, dirs, archive,
                   built, cli, starts,
                   launchVars, logVars>>

\* a step without command, source or destination: process.exit(1) in the loop
StepInvalid ==
    /\ build' = Exited(1)
    /\ UNCHANGED <<mounted, dirs, archive, descr, crates, artifact>>

\* one build step: a command or copy that fails throws into the catch block,
\* which runs removeCrateHandler with force and exits with code 1
BuildStep(ok, free) ==
    /\ build.pc = "steps"
    /\ LET last == build.step = Len(build.file) IN
       IF build.file[build.step] = "nocmd"
       THEN StepInvalid
       ELSE IF ok
       THEN /\ build' = [build EXCEPT !.mtime = now,
                            !.step = build.step + 1,
                            !.pc = IF last THEN "compress" ELSE "steps"]
            /\ UNCHANGED <<mounted, dirs, archive, descr, crates, artifact>>
       ELSE /\ removeCrateHandler(TRUE, free)
            /\ build' = Exited(1)
    /\ UNCHANGED <<daemonVars, res, mop, calls, runs, built, cli, starts,
                   launchVars, logVars>>

\* compress: the archive of the upper directory is written
BuildCompress ==
    /\ build.pc = "compress"
    /\ archive' = Tar(build.file, build.mtime)
    /\ build' = [build EXCEPT !.pc = "record"]
    /\ UNCHANGED <<daemonVars, layerVars, mountVars, descr, artifact, dirs,
                   built, cli, starts,
                   launchVars, logVars>>

\* getFileDigest and writeCrate, then unmountCrate: the insert fails on a
\* (name, tag) that has a row already (unique), and the rejection ends the
\* process
BuildRecord(free) ==
    /\ build.pc = "record"
    /\ IF CrateName \in DOMAIN crates
       THEN /\ build' = Exited(1)
            /\ UNCHANGED <<crates, artifact, mounted, built>>
       ELSE LET digest == Sha256(archive)
                row == [digest |-> digest, keelanFileId |-> Sha256(build.file)] IN
            /\ crates' = [n \in DOMAIN crates \cup {CrateName} |->
                            IF n = CrateName THEN RootLayer ELSE crates[n]]
            /\ artifact' = [n \in DOMAIN artifact \cup {CrateName} |->
                              IF n = CrateName THEN row ELSE artifact[n]]
            /\ mounted' = [mounted EXCEPT ![CrateRoot] =
                              unmountCrate(mounted[CrateRoot], free)]
            /\ built' = built \cup {[file |-> build.file, digest |-> digest]}
            /\ build' = Exited(0)
    /\ UNCHANGED <<daemonVars, res, mop, calls, runs, descr, dirs, archive,
                   cli, starts,
                   launchVars, logVars>>

\* ------------------------------------------------------ ship command line
\* the root of the merge path of ship "a"
ShipRoot == "ship"

\* deployHandler after createAndMountOverlay has returned: the deploy message
\* is sent to the daemon
ShipDeploy(c, n, cmd) ==
    /\ mop = IdleOp
    /\ checkMountpoint(ShipRoot)
    /\ DeployReq(c, n, cmd)

\* startShipHandler: a ship persisted as running with a pid is left alone,
\* a ship without a row is refused; after createAndMountOverlay has returned
\* the start message is sent to the daemon
ShipStart(c, n, cmd) ==
    /\ HasRow(n)
    /\ ~(ships[n].status = "running" /\ ships[n].processId # NoPid)
    /\ mop = IdleOp
    /\ checkMountpoint(ShipRoot)
    /\ StartReq(c, n, cmd)

\* stopShipHandler: the stop message is sent to the daemon, nothing else
ShipStop(c, n, force) == StopReq(c, n, force)

\* removeShipHandler({name, force}): removeShip (unmountCrate, rm of the three
\* directories), then the row is deleted; a throw of removeShip ends in
\* exit(1). A live ship process has its root in the merge path and keeps the
\* mounts busy
RemoveShipCli(n, force, free) ==
    /\ mop.op = "none"
    /\ free => alive = {}
    /\ mounted' = [mounted EXCEPT ![ShipRoot] = removeMounted(ShipRoot, free)]
    /\ dirs' = [dirs EXCEPT ![ShipRoot] = removeDirs(ShipRoot, free)]
    /\ IF removeThrows(ShipRoot, force, free)
       THEN /\ cli' = [cmd |-> "remove-ship", force |-> force, exit |-> 1]
            /\ UNCHANGED ships
       ELSE /\ cli' = [cmd |-> "remove-ship", force |-> force, exit |-> 0]
            /\ ships' = [m \in DOMAIN ships \ {n} |-> ships[m]]
    /\ UNCHANGED <<alive, nextPid, handles, conn, dstate, isRunning, pidFile,
                   timerOn, socketOpen, errorPending, daemonExit, now,
                   listenPending, layerVars, mop, calls, runs, descr, artifact,
                   archive, build, built, starts,
                   launchVars, logVars>>

\* --------------------------------------- start invocations side by side
Starters == {1, 2}
IdleStart == [root |-> "none", pc |-> 0]

\* one invocation up to the probe of mountCrate: the directories are
\* created, and on a mounted merge path the invocation is done with the mount
StartProbe(s, r) ==
    /\ starts[s].pc = 0
    /\ dirs' = [dirs EXCEPT ![r] = Dirs]
    /\ starts' = [starts EXCEPT ![s] =
                    IF checkMountpoint(r) THEN IdleStart
                    ELSE [root |-> r, pc |-> 1]]
    /\ UNCHANGED <<daemonVars, layerVars, mountVars, descr, artifact, archive,
                   build, built, cli, launchVars, logVars>>

\* the next mount command of one invocation; a failure throws
StartMount(s, ok) ==
    /\ starts[s].pc >= 1
    /\ LET r == starts[s].root
           p == MountOrder[starts[s].pc]
           last == starts[s].pc = Len(MountOrder) IN
       IF ok
       THEN /\ mounted' = [mounted EXCEPT ![r] = mounted[r] \cup {p}]
            /\ runs' = [runs EXCEPT ![r][p] = runs[r][p] + 1]
            /\ starts' = [starts EXCEPT ![s] =
                            IF last THEN IdleStart
                            ELSE [starts[s] EXCEPT !.pc = starts[s].pc + 1]]
       ELSE /\ starts' = [starts EXCEPT ![s] = IdleStart]
            /\ UNCHANGED <<mounted, runs>>
    /\ UNCHANGED <<daemonVars, layerVars, mop, calls, cmdVarsButStarts>>

\* ---------------------------------------------------------- specifications
LayerInit == crates = <<>> /\ res = IdleRes

MountInit ==
    /\ mounted = [r \in Roots |-> {}]
    /\ mop = IdleOp
    /\ calls = [r \in Roots |-> 0]
    /\ runs = [r \in Roots |-> NoRuns]

\* ------------------------------------------------------------ daemon start
\* `keelan daemon start` invocations and the daemon processes they spawn; a
\* daemon's pid is its index in daemons
MaxDaemons == 2
Invocations == {1, 2}
IdleCli == [pc |-> "idle", child |-> NoPid]

DaemonUp(d) == d \in DOMAIN daemons /\ daemons[d] # "dead"

\* isDaemonRunning(pidFile): no file, no daemon; otherwise process.kill(pid, 0)
\* on the pid read from the file, false on ESRCH
isDaemonRunning == pidPath # NoPid /\ DaemonUp(pidPath)

\* startDaemon up to its 30 s wait: the probe, then spawn(command, args)
\* detached, which returns at once while the child boots
startDaemon(k) ==
    /\ startCli[k].pc = "idle"
    /\ IF isDaemonRunning
       THEN /\ startCli' = [startCli EXCEPT ![k].pc = "already"]
            /\ UNCHANGED daemons
       ELSE /\ Len(daemons) < MaxDaemons
            /\ daemons' = Append(daemons, "booting")
            /\ startCli' = [startCli EXCEPT ![k] =
                               [pc |-> "waiting", child |-> Len(daemons) + 1]]
    /\ UNCHANGED pidPath
    /\ UNCHANGED <<daemonVars, layerVars, mountVars, cmdVarsButLaunch>>

\* startDaemon after the wait: success, or "Failed to start" and exit(1)
startDaemonReport(k) ==
    /\ startCli[k].pc = "waiting"
    /\ startCli' = [startCli EXCEPT ![k].pc =
                       IF isDaemonRunning THEN "started" ELSE "failed"]
    /\ UNCHANGED <<pidPath, daemons>>
    /\ UNCHANGED <<daemonVars, layerVars, mountVars, cmdVarsButLaunch>>

\* the command ends; the next one is typed
startDaemonEnd(k) ==
    /\ startCli[k].pc \in {"already", "started", "failed"}
    /\ startCli' = [startCli EXCEPT ![k] = IdleCli]
    /\ UNCHANGED <<pidPath, daemons>>
    /\ UNCHANGED <<daemonVars, layerVars, mountVars, cmdVarsButLaunch>>

\* MonitorDaemon.start() in the spawned process: writePidFile writes
\* process.pid over whatever the file holds
writePidFile(d) ==
    /\ d \in DOMAIN daemons
    /\ daemons[d] = "booting"
    /\ pidPath' = d
    /\ daemons' = [daemons EXCEPT ![d] = "running"]
    /\ UNCHANGED startCli
    /\ UNCHANGED <<daemonVars, layerVars, mountVars, cmdVarsButLaunch>>

\* a daemon process ends. A started one that goes through stop() removes the
\* PID file (removePidFile, whatever pid the file holds); one that is killed,
\* or exits before the removal is issued, leaves the file as it is
DaemonEnds(d, removed) ==
    /\ DaemonUp(d)
    /\ removed => daemons[d] = "running"
    /\ daemons' = [daemons EXCEPT ![d] = "dead"]
    /\ pidPath' = IF removed THEN NoPid ELSE pidPath
    /\ UNCHANGED startCli
    /\ UNCHANGED <<daemonVars, layerVars, mountVars, cmdVarsButLaunch>>

\* --------------------------------------------------------------- TailLog
\* a message is a sequence of characters; "\n" is the line break
MAX_LINES == 5
MaxMsgLen == 3
MaxLogs == 3
Chars == {"x", "\n"}
Messages == UNION {[1..n -> Chars] : n \in 0..MaxMsgLen}

\* message.includes("\n")
includes(m) == \E i \in 1..Len(m) : m[i] = "\n"

\* message.split("\n")
RECURSIVE split(_)
split(m) ==
    IF ~includes(m) THEN <<m>>
    ELSE LET i == CHOOSE j \in 1..Len(m) :
                      m[j] = "\n" /\ \A h \in 1..(j - 1) : m[h] # "\n"
         IN <<SubSeq(m, 1, i - 1)>> \o split(SubSeq(m, i + 1, Len(m)))

\* push without the shift
pushOnly(buf, line) == Append(buf, line)

\* logBuffer.push(message), then shift() when the buffer exceeds MAX_LINES
push(buf, line) ==
    LET b == Append(buf, line) IN
    IF Len(b) > MAX_LINES THEN Tail(b) ELSE b

\* TailLog.log: a message with line breaks is logged line by line
RECURSIVE log(_, _), logEach(_, _)
log(buf, m) == IF includes(m) THEN logEach(buf, split(m)) ELSE push(buf, m)

\* message.split("\n").forEach(line => this.log(line))
logEach(buf, lines) ==
    IF lines = <<>> THEN buf ELSE logEach(log(buf, Head(lines)), Tail(lines))

\* one call of log
Log(m) ==
    /\ Len(messages) < MaxLogs
    /\ logBuffer' = log(logBuffer, m)
    /\ messages' = Append(messages, m)
    /\ UNCHANGED <<daemonVars, layerVars, mountVars, cmdVarsButLog>>

CmdInit ==
    /\ descr = {}
    /\ artifact = <<>>
    /\ dirs = [r \in Roots |-> {}]
    /\ archive = NoArchive
    /\ build = IdleBuild
    /\ built = {}
    /\ cli = [cmd |-> "none", force |-> FALSE, exit |-> NoCode]
    /\ starts = [s \in Starters |-> IdleStart]
    /\ pidPath = NoPid
    /\ daemons = <<>>
    /\ startCli = [k \in Invocations |-> IdleCli]
    /\ logBuffer = <<>>
    /\ messages = <<>>

Init == DaemonInit /\ LayerInit /\ MountInit /\ CmdInit

Next ==
    \/ Tick
    \/ \E c \in Conns, n \in ShipNames, cmd \in Commands : DeployReq(c, n, cmd)
    \/ \E c \in Conns, n \in ShipNames, cmd \in Commands : StartReq(c, n, cmd)
    \/ \E c \in Conns, n \in ShipNames, force \in BOOLEAN : StopReq(c, n, force)
    \/ \E c \in Conns : StopAfterGrace(c)
    \/ \E c \in Conns : OtherReq(c)
    \/ \E c \in Conns : MalformedReq(c)
    \/ \E c \in Conns : ConnClose(c)
    \/ \E p \in Pids, code \in ExitCodes \cup {NoCode} : ProcExit(p, code)
    \/ \E p \in Pids : CloseHandler(p)
    \/ \E p \in Pids : HealthCheck(p)
    \/ MonitorTick
    \/ DaemonLaunch
    \/ DaemonStart
    \/ SocketListening
    \/ DaemonSignal
    \/ DaemonStopped
    \/ UncaughtException
    \/ SocketBindError
    \/ LogStreamError



Spec == Init /\ [][Next]_vars

\* resolveLayer over every content of keelan_crate
InitLayer ==
    DaemonInit /\ MountInit /\ CmdInit /\ crates \in AllCrates /\ res = IdleRes

NextLayer ==
    \/ \E name \in LayerNames \cup {RootLayer} : ResolveCall(name)
    \/ ResolveEnter
    \/ ResolveReturn
    \/ ComposeLowerdir

SpecLayer == InitLayer /\ [][NextLayer]_vars

\* mount and unmount calls of the command line, one after the other
NextMount ==
    \/ \E r \in Roots : MountCall(r)
    \/ \E ok \in BOOLEAN : MountStep(ok)
    \/ \E r \in Roots : UnmountCall(r)
    \/ \E free \in BOOLEAN : UnmountVfsStep(free)
    \/ \E free \in BOOLEAN : UnmountOverlayStep(free)

SpecMount == Init /\ [][NextMount]_vars

\* builds and removals of one crate by the command line, one after the other
NextBuild ==
    \/ Tick
    \/ \E file \in Keelanfiles, free \in BOOLEAN, k \in 0..Len(MountOrder) :
          BuildStart(file, free, k)
    \/ BuildDescriptor
    \/ \E ok \in BOOLEAN, free \in BOOLEAN : BuildStep(ok, free)
    \/ BuildCompress
    \/ \E free \in BOOLEAN : BuildRecord(free)
    \/ \E force \in BOOLEAN, free \in BOOLEAN : RemoveCrateCli(force, free)

SpecBuild == Init /\ [][NextBuild]_vars

\* the ship commands of the command line against a running daemon
NextShip ==
    \/ DaemonLaunch
    \/ DaemonStart
    \/ SocketListening
    \/ MountCall(ShipRoot)
    \/ \E ok \in BOOLEAN : MountStep(ok)
    \/ \E c \in Conns, n \in ShipNames : ShipDeploy(c, n, "ok")
    \/ \E c \in Conns, n \in ShipNames : ShipStart(c, n, "ok")
    \/ \E c \in Conns, n \in ShipNames, force \in BOOLEAN : ShipStop(c, n, force)
    \/ \E c \in Conns : StopAfterGrace(c)
    \/ \E c \in Conns : ConnClose(c)
    \/ \E p \in Pids, code \in ExitCodes \cup {NoCode} : ProcExit(p, code)
    \/ \E p \in Pids : CloseHandler(p)
    \/ \E n \in ShipNames, force \in BOOLEAN, free \in BOOLEAN :
          RemoveShipCli(n, force, free)

SpecShip == Init /\ [][NextShip]_vars

\* deploy and start requests over two ship names, and the exits of the
\* processes they spawn
FleetNames == {"a", "b"}

NextFleet ==
    \/ Tick
    \/ DaemonLaunch
    \/ DaemonStart
    \/ SocketListening
    \/ \E c \in Conns, n \in FleetNames, cmd \in Commands : DeployReq(c, n, cmd)
    \/ \E c \in Conns, n \in FleetNames, cmd \in Commands : StartReq(c, n, cmd)
    \/ \E c \in Conns : ConnClose(c)
    \/ \E p \in Pids, code \in ExitCodes \cup {NoCode} : ProcExit(p, code)
    \/ \E p \in Pids : CloseHandler(p)
    \/ MonitorTick
    \/ UncaughtException

SpecFleet == Init /\ [][NextFleet]_vars

\* two invocations that mount (start, deploy, build), step by step
NextRace ==
    \/ \E s \in Starters, r \in Roots : StartProbe(s, r)
    \/ \E s \in Starters, ok \in BOOLEAN : StartMount(s, ok)

SpecRace == Init /\ [][NextRace]_vars

NextLaunch ==
    \/ \E k \in Invocations : startDaemon(k)
    \/ \E k \in Invocations : startDaemonReport(k)
    \/ \E k \in Invocations : startDaemonEnd(k)
    \/ \E d \in 1..MaxDaemons : writePidFile(d)
    \/ \E d \in 1..MaxDaemons, removed \in BOOLEAN : DaemonEnds(d, removed)

SpecLaunch == Init /\ [][NextLaunch]_vars

NextLog == \E m \in Messages : Log(m)

SpecLog == Init /\ [][NextLog]_vars

\* ====================================================================
\* Properties
\* ====================================================================
StopSuccess(r) == r.status = "success" /\ r.msg \in {"stopped", "already_stopped"}

KillsSent(sigs) == {i \in 1..Len(sigs) : sigs[i].sig = "SIGKILL"}

Delivered(sigs) == {i \in 1..Len(sigs) : sigs[i].res = "ok"}

\* C1: every payload a handler has finished with got exactly one response,
\* {status: success|error, ...}, on its connection: never zero, never two.
C1_ExactlyOneReply ==
    \A c \in Conns :
        conn[c].pc = "done" =>
            /\ Len(conn[c].replies) = 1
            /\ conn[c].replies[1].status \in {"success", "error"}

\* C2: no request takes the daemon out of running: once it serves requests it
\* leaves that state only through stop() (a signal or the stop command), which
\* passes through stopping.
C2_RequestsKeepDaemonRunning ==
    [][(dstate = "running" /\ socketOpen) => dstate' \in {"running", "stopping"}]_vars

\* C3: a reconciliation pass (the timer's, or the one start() runs) leaves
\* every ship that was persisted as running without a live process stopped,
\* with a stoppedAt, whatever processId the row holds.
C3_ReconcileStopsDeadShips ==
    [][(MonitorTick \/ DaemonStart) =>
         \A n \in DOMAIN ships :
            (ships[n].status = "running" /\ ~isProcessRunning(ships[n].processId)) =>
                (ships'[n].status = "stopped" /\ ships'[n].stoppedAt # NoTime)]_vars

\* C4: in every persisted state, processId is non-null iff status = running.
C4_PidIffRunning ==
    \A n \in DOMAIN ships :
        (ships[n].processId # NoPid) <=> (ships[n].status = "running")

\* C5: stoppedAt is written exactly in the steps that take a ship out of
\* running: not while it stays running, not again once it is stopped.
C5_StoppedAtOnlyOnLeavingRunning ==
    [][\A n \in DOMAIN ships \cap DOMAIN ships' :
         (ships'[n].stoppedAt # NoTime /\ ships'[n].stoppedAt # ships[n].stoppedAt)
            <=> (ships[n].status = "running" /\ ships'[n].status # "running")]_vars

\* C6: a stop request for an existing ship whose status is not running
\* replies success and sends no signal, whatever processId the row holds.
C6_StopNotRunningSucceedsSilently ==
    [][\A c \in Conns, n \in ShipNames :
         ((\E force \in BOOLEAN : StopReq(c, n, force))
            /\ HasRow(n) /\ ships[n].status # "running") =>
                /\ Len(conn'[c].replies) = 1
                /\ conn'[c].replies[1].status = "success"
                /\ conn'[c].sigs = <<>>]_vars

\* C7: a stop request for a ship persisted as running whose recorded PID is
\* dead sets the status to stopped and replies success without attempting to
\* deliver a signal to that PID.
C7_StopDeadPidNoSignalAttempt ==
    [][\A c \in Conns, n \in ShipNames :
         ((\E force \in BOOLEAN : StopReq(c, n, force))
            /\ HasRow(n) /\ ships[n].status = "running"
            /\ ships[n].processId # NoPid /\ ~isProcessRunning(ships[n].processId)) =>
                /\ ships'[n].status = "stopped"
                /\ Len(conn'[c].replies) = 1
                /\ conn'[c].replies[1].status = "success"
                /\ conn'[c].sigs = <<>>]_vars

\* C8: stop without force, process alive after SIGTERM and the grace period:
\* the reply is the error asking for force, no kill signal is sent, and the
\* handler leaves the ship table as it found it (a row that read running
\* still reads running).
C8_NoForceLeavesRowUnchanged ==
    [][\A c \in Conns :
         (StopAfterGrace(c) /\ ~conn[c].force /\ isProcessRunning(conn[c].pid)) =>
            /\ conn'[c].replies = <<Reply("error", "use_force", NoPid)>>
            /\ KillsSent(conn'[c].sigs) = {}
            /\ ships' = ships
            /\ alive' = alive]_vars

C8_Witness ==
    \E c \in Conns :
        /\ conn[c].pc = "done"
        /\ conn[c].replies = <<Reply("error", "use_force", NoPid)>>
        /\ conn[c].pid \in alive
        /\ HasRow("a") /\ ships["a"].status = "running"
        /\ ships["a"].processId = conn[c].pid

\* C9: a stop request with force for a ship persisted as running always ends
\* with a success reply and the ship persisted as stopped, after SIGTERM, the
\* grace period and at most one SIGKILL; ESRCH on a signal counts as stopped.
C9_ForceStopAlwaysSucceeds ==
    [][\A c \in Conns, n \in ShipNames :
         /\ (StopReq(c, n, TRUE) /\ HasRow(n) /\ ships[n].status = "running") =>
               \/ conn'[c].pc = "grace"
               \/ /\ conn'[c].replies[1].status = "success"
                  /\ ships'[n].status = "stopped"
         /\ (StopAfterGrace(c) /\ conn[c].force /\ conn[c].ship = n) =>
               /\ conn'[c].replies[1].status = "success"
               /\ HasRow(n) => ships'[n].status = "stopped"
               /\ Cardinality(KillsSent(conn'[c].sigs)) <= 1]_vars

\* C10: two stop handlers for the same process do not both report success on
\* the strength of a single delivered signal.
C10_OneSuccessPerSignal ==
    \A c \in Conns, d \in Conns :
        (/\ c # d
         /\ conn[c].pc = "done" /\ conn[d].pc = "done"
         /\ conn[c].pid # NoPid /\ conn[c].pid = conn[d].pid
         /\ Len(conn[c].replies) = 1 /\ StopSuccess(conn[c].replies[1])
         /\ Len(conn[d].replies) = 1 /\ StopSuccess(conn[d].replies[1]))
        => Cardinality(Delivered(conn[c].sigs)) + Cardinality(Delivered(conn[d].sigs)) >= 2

\* C11: a deploy answered with status success leaves a ship row of the
\* requested name whose status is running and whose processId is non-null
\* and equal to the pid carried in the reply.
C11_DeploySuccessHasRunningRow ==
    [][\A c \in Conns, n \in ShipNames :
         ((\E cmd \in Commands : DeployReq(c, n, cmd))
            /\ Len(conn'[c].replies) = 1
            /\ conn'[c].replies[1].status = "success") =>
                /\ n \in DOMAIN ships'
                /\ ships'[n].status = "running"
                /\ ships'[n].processId # NoPid
                /\ ships'[n].processId = conn'[c].replies[1].pid]_vars

\* C12: once every handler triggered by a spawn that failed at the spawn
\* level has run (no 'error' event is pending), the ship spawned without a
\* pid is persisted with status error, not running and not stopped.
C12_SpawnFailureEndsError ==
    ~errorPending =>
        \A n \in DOMAIN ships :
            ships[n].processId = NoPid => ships[n].status = "error"

\* C13: the lifecycle only moves stopped -> starting -> running -> stopping
\* -> stopped, and whenever the daemon is in running the PID file exists and
\* the control socket is bound (starting did both, and the first
\* reconciliation pass).
LifecycleOrder ==
    {<<"stopped", "starting">>, <<"starting", "running">>,
     <<"running", "stopping">>, <<"stopping", "stopped">>}

C13_LifecycleAndRunningReady ==
    [][/\ dstate' # dstate => <<dstate, dstate'>> \in LifecycleOrder
       /\ dstate' = "running" => (pidFile' /\ socketOpen')]_vars

\* C14: on a signal or the stop command the PID file is removed only once
\* the timer is cancelled and the control socket closed, and the process
\* that was stopping (no bind of its socket outstanding) exits only with the
\* PID file removed.
C14_StopRemovesPidFileLast ==
    [][/\ (pidFile /\ ~pidFile') => (~timerOn /\ ~socketOpen)
       /\ (dstate = "stopping" /\ ~listenPending /\ dstate' = "stopped") =>
             ~pidFile']_vars

\* C15: when the daemon exits on an uncaught exception (exit code 1), the
\* timer is cancelled, the control socket closed and the PID file removed
\* before the process is gone.
C15_CrashCompletesShutdown ==
    [][(dstate # "stopped" /\ dstate' = "stopped" /\ daemonExit' = 1) =>
          (~timerOn' /\ ~socketOpen' /\ ~pidFile')]_vars

\* the stored chain from n: the names met along baseImage, k hops at most,
\* up to the default image or a name without a row
RECURSIVE Walk(_, _)
Walk(n, k) ==
    IF n = RootLayer \/ n \notin DOMAIN crates \/ k = 0 THEN <<n>>
    ELSE <<n>> \o Walk(crates[n], k - 1)

ChainOf(n) == Walk(n, Cardinality(LayerNames))

\* n heads a stored acyclic chain that ends at the default image
IsChain(n) == ChainOf(n)[Len(ChainOf(n))] = RootLayer

\* C16: for a stored acyclic chain name -> p1 -> ... -> pk -> root the
\* resolution does not fail and returns exactly [name, p1, ..., pk, root];
\* resolve(root) returns [root].
C16_ResolveReturnsChain ==
    IsChain(res.name) =>
        /\ res.pc # "failed"
        /\ res.pc = "done" => res.value = ChainOf(res.name)

C16_Witness ==
    /\ res.pc = "done"
    /\ Len(res.value) = Cardinality(LayerNames) + 1
    /\ res.value[1] = res.name
    /\ res.value[Len(res.value)] = RootLayer

\* C17: a resolution that meets a layer without a row fails with the error
\* naming that missing layer, the first one on the chain, not the name the
\* resolution was started with, and returns no list.
C17_MissingLayerNamed ==
    res.pc = "failed" =>
        /\ res.error \notin DOMAIN crates
        /\ res.error # RootLayer
        /\ res.error = ChainOf(res.name)[Len(ChainOf(res.name))]
        /\ res.value = <<>>

C17_Witness ==
    /\ res.pc = "failed"
    /\ res.name \in DOMAIN crates
    /\ res.error # res.name

\* C18: the resolver stops when a chain comes back to a layer it already
\* visited: below its innermost call no layer is being resolved twice.
C18_ResolveStopsOnRevisit ==
    \A i \in 1..Len(res.stack), j \in 1..Len(res.stack) :
        (i < j /\ j < Len(res.stack)) => res.stack[i] # res.stack[j]

\* C19: a mount call on a mounted merge path runs no mount command; an
\* unmount call on a merge path that is not mounted runs no command and
\* raises no error; two mount calls in a row from a clean root ran the
\* overlay mount and each virtual-filesystem mount exactly once.
C19_MountUnmountIdempotent ==
    [][\A r \in Roots :
         /\ (MountCall(r) /\ checkMountpoint(r)) =>
               (mounted' = mounted /\ runs' = runs /\ mop' = IdleOp)
         /\ (UnmountCall(r) /\ ~checkMountpoint(r)) =>
               (mounted' = mounted /\ mop' = IdleOp)
         /\ calls'[r] >= 2 => \A p \in MountPoints : runs'[r][p] = 1]_vars

C19_Witness ==
    \E r \in Roots :
        calls[r] = 2 /\ mop = IdleOp /\ mounted[r] = MountPoints

\* C20: a virtual filesystem gets mounted below a merge path only when the
\* overlay is mounted there, and the overlay gets unmounted only when
\* dev/pts, proc, dev and sys below it are unmounted.
C20_VfsInsideOverlay ==
    [][\A r \in Roots :
         /\ \A v \in Vfs :
               (v \notin mounted[r] /\ v \in mounted'[r]) => "merge" \in mounted[r]
         /\ ("merge" \in mounted[r] /\ "merge" \notin mounted'[r]) =>
               mounted[r] \cap Vfs = {}]_vars

C20_Witness ==
    \E r \in Roots :
        /\ mounted[r] = {}
        /\ mop = IdleOp
        /\ calls[r] = Broken
        /\ \A p \in MountPoints : runs[r][p] = 1

\* C21: when a build ends on a failed step (a command that exits non-zero or
\* cannot be spawned, an execute_command step without a command, a copy that
\* fails), its exit code is non-zero and the crate name has no crate record,
\* no build descriptor and no upper, work or merge directory.
C21_FailedStepLeavesNothing ==
    [][(build.pc = "steps" /\ build'.pc = "exited") =>
          /\ build'.exit # 0
          /\ CrateName \notin DOMAIN crates'
          /\ \A f \in descr' : f.name # CrateName
          /\ dirs'[CrateRoot] = {}]_vars

\* C22: a build under a name that had a build descriptor already (here: the
\* descriptor of a crate built before) does not end on one of its two inserts
\* failing: it ends with exit code 0, exactly one build descriptor of the
\* name and a crate record of the name.
C22_RebuildOverwrites ==
    [][(build.taken /\ CrateName \in DOMAIN crates
          /\ build.pc \in {"descriptor", "record"}
          /\ build'.pc = "exited") =>
             /\ build'.exit = 0
             /\ Cardinality({f \in descr' : f.name = CrateName}) = 1
             /\ CrateName \in DOMAIN crates']_vars

\* C23: the digest a build stores with the crate record is the SHA-256 of the
\* archive the build wrote, and over the builds that completed the digest
\* depends on the build's inputs alone: the same Keelanfile gives the same
\* digest, different step outputs give different digests.
C23_DigestContentAddressed ==
    [][/\ (build.pc = "record" /\ build'.exit = 0) =>
             artifact'[CrateName].digest = Sha256(archive')
       /\ \A b1 \in built', b2 \in built' :
             (b1.file = b2.file) <=> (b1.digest = b2.digest)]_vars

\* C24: a stop request for a ship persisted as running, its overlay and
\* virtual filesystems mounted, that is answered with success leaves the
\* ship's merge path unmounted.
C24_StopUnmountsOverlay ==
    [][\A c \in Conns, n \in ShipNames :
         (/\ (\E force \in BOOLEAN : ShipStop(c, n, force)) \/ StopAfterGrace(c)
          /\ HasRow(n) /\ ships[n].status = "running"
          /\ mounted[ShipRoot] = MountPoints
          /\ Len(conn'[c].replies) = 1
          /\ conn'[c].replies[1].status = "success") =>
                "merge" \notin mounted'[ShipRoot]]_vars

\* C25: invocations that mount the same merge path do not interleave their
\* probe and mount commands, so the overlay is mounted at most once on a
\* merge path (no mount command runs twice on a root that was not unmounted).
C25_OverlayMountedOnce ==
    \A r \in Roots : runs[r]["merge"] <= 1

\* C26: a removal of a crate that has a crate record, ended with exit code 0,
\* leaves no crate record, no archive and no upper, work or merge directory
\* of the name, and no build descriptor of the name (no other crate
\* references a descriptor of this name).
C26_RemoveCrateLeavesNothing ==
    [][\A force \in BOOLEAN, free \in BOOLEAN :
         (RemoveCrateCli(force, free) /\ CrateName \in DOMAIN crates
            /\ cli'.exit = 0) =>
               /\ CrateName \notin DOMAIN crates'
               /\ archive' = NoArchive
               /\ dirs'[CrateRoot] = {}
               /\ \A f \in descr' : f.name # CrateName]_vars

\* C27: a removal of a ship (here: one that is deployed and mounted, its
\* process alive)
\* that ended with exit code 0 leaves no row of the ship, its merge path
\* unmounted and none of its upper, work and merge directories.
C27_RemoveShipLeavesNothing ==
    [][\A n \in ShipNames, force \in BOOLEAN, free \in BOOLEAN :
         (RemoveShipCli(n, force, free) /\ cli'.exit = 0
            /\ HasRow(n) /\ ships[n].processId \in alive
            /\ mounted[ShipRoot] = MountPoints) =>
            /\ n \notin DOMAIN ships'
            /\ "merge" \notin mounted'[ShipRoot]
            /\ dirs'[ShipRoot] = {}]_vars

\* C28: while unmountCrate works through dev/pts, proc, dev and sys of a
\* root that has them mounted, every umount, failed or not, is followed by
\* the attempt on the next one (and after sys by the attempt on the
\* overlay): no failure skips an attempt, and none throws out of
\* unmountCrate.
C28_UnmountFailureSkipsNothing ==
    [][(/\ mop.op = "unmount" /\ mop.pc <= Len(UnmountVfsOrder) /\ mop' # mop
        /\ \A i \in mop.pc..Len(UnmountVfsOrder) :
              UnmountVfsOrder[i] \in mounted[mop.root]) =>
          /\ mop'.op = "unmount"
          /\ mop'.pc = mop.pc + 1
          /\ ~mop'.threw]_vars

\* the piece of lowerdir at position k, or none past its end
Piece(s, k) == IF k \in 1..Len(s) THEN s[k] ELSE "none"

\* lowerdir lists one path of three pieces per layer, in the order of the
\* layers, a separator after each path but the last, and nothing else
ListsPaths(s, layers, IsPathOf(_, _)) ==
    /\ Len(s) = IF layers = <<>> THEN 0 ELSE 4 * Len(layers) - 1
    /\ \A i \in 1..Len(layers) :
          /\ IsPathOf(<<Piece(s, 4 * i - 3), Piece(s, 4 * i - 2),
                        Piece(s, 4 * i - 1)>>, layers[i])
          /\ i < Len(layers) => Piece(s, 4 * i) = PathSep

\* the path below the crates directory named after the layer
NamedPath(dir) == <<"crates", "/", dir>>

\* C29 (as the code has it): the lowerdir string composed by
\* createAndMountOverlay lists the paths of the resolved layers in the
\* resolver's order, joined by ":" with no trailing ":", and every layer,
\* the default image included, has the path named after it below the crates
\* directory.
C29_LowerdirListsNamedPaths ==
    res.pc = "composed" =>
        ListsPaths(res.lowerdir, res.value,
                   LAMBDA path, dir : path = NamedPath(dir))

C29_Witness ==
    /\ res.pc = "composed"
    /\ res.value = <<"x", "y", RootLayer>>
    /\ res.lowerdir = <<"crates", "/", "x", ":", "crates", "/", "y", ":",
                        "crates", "/", RootLayer>>

\* C29 (as stated): as above, but the default image is mapped to a fixed
\* bootstrap path that differs from the path named after it.
C29_RootLayerHasBootstrapPath ==
    res.pc = "composed" =>
        ListsPaths(res.lowerdir, res.value,
                   LAMBDA path, dir : IF dir = RootLayer
                                      THEN path # NamedPath(dir)
                                      ELSE path = NamedPath(dir))

\* C30: in every build the build descriptor (content and checksum) is
\* inserted with the overlay mounted on the merge path and before any step
\* has run, it is there while the steps run, and the crate record is inserted
\* only once every step of the Keelanfile has succeeded.
C30_DescriptorBeforeStepsRecordAfter ==
    [][/\ (descr' \ descr # {}) =>
             /\ "merge" \in mounted[CrateRoot]
             /\ build.pc = "descriptor" /\ build.step = 0
             /\ descr' \ descr =
                   {[name |-> CrateName, checksum |-> Sha256(build.file)]}
       /\ build.pc = "steps" =>
             [name |-> CrateName, checksum |-> Sha256(build.file)] \in descr
       /\ (CrateName \notin DOMAIN crates /\ CrateName \in DOMAIN crates') =>
             /\ build.pc = "record"
             /\ build.step = Len(build.file) + 1]_vars

C30_Witness ==
    /\ build.pc = "exited" /\ build.exit = 0
    /\ build.file = <<"cmd", "copy">>
    /\ CrateName \in DOMAIN crates
    /\ descr = {[name |-> CrateName, checksum |-> Sha256(build.file)]}

\* C31: a build that succeeds has written the archive before it stores the
\* crate record, stores with the record (tag latest) the digest of that
\* archive, unmounts last, and ends with its merge path not a mount point.
C31_SuccessPathOrderAndUnmount ==
    [][(build.pc = "record" /\ build'.pc = "exited" /\ build'.exit = 0) =>
          /\ archive # NoArchive /\ archive' = archive
          /\ CrateName \in DOMAIN crates'
          /\ artifact'[CrateName].digest = Sha256(archive)
          /\ "merge" \notin mounted'[CrateRoot]]_vars

\* C32: a start request inserts no ship row: the names that have a row stay
\* the same, every row but the named ship's is unchanged, and the named
\* ship's row, when it exists, reads running with startedAt set to the time
\* of the request and stoppedAt and exitCode cleared.
C32_StartUpdatesOnlyNamedRow ==
    [][\A c \in Conns, n \in FleetNames :
         ((\E cmd \in Commands : StartReq(c, n, cmd))
            /\ Len(conn'[c].replies) = 1
            /\ conn'[c].replies[1].status = "success") =>
               /\ DOMAIN ships' = DOMAIN ships
               /\ \A m \in DOMAIN ships : m # n => ships'[m] = ships[m]
               /\ n \in DOMAIN ships =>
                     /\ ships'[n].status = "running"
                     /\ ships'[n].startedAt = now
                     /\ ships'[n].stoppedAt = NoTime
                     /\ ships'[n].exitCode = NoCode]_vars

C32_Witness ==
    \E c \in Conns :
        /\ conn[c].pc = "done"
        /\ conn[c].replies = <<Reply("success", "started", 2)>>
        /\ DOMAIN ships = {"a", "b"}
        /\ ships["a"].processId = 2
        /\ ships["a"].status = "running"
        /\ ships["a"].exitCode = NoCode

\* C33: after a supervised process exits with a code, the ship's row is
\* stopped with that exit code, also when a stop request provoked the exit:
\* the update stop makes after its grace period leaves the exit code that the
\* close handler recorded for the process stop signalled.
C33_StopKeepsRecordedExitCode ==
    [][\A c \in Conns :
          (/\ conn[c].pc = "grace"
           /\ conn'[c].pc = "done"
           /\ HasRow(conn[c].ship)
           /\ ships[conn[c].ship].processId = conn[c].pid
           /\ ships[conn[c].ship].status = "stopped"
           /\ ships[conn[c].ship].exitCode \in ExitCodes)
          => /\ HasRow(conn[c].ship)'
             /\ ships'[conn[c].ship].exitCode = ships[conn[c].ship].exitCode]_vars

\* C34: a reconciliation pass changes only rows persisted as running whose
\* recorded process no longer exists, and turns them into stopped rows; rows
\* whose process is alive and rows that are not running stay as they are, and
\* no row is added or removed.
C34_ReconcileChangesOnlyDeadRunning ==
    [][(MonitorTick \/ DaemonStart) =>
         /\ DOMAIN ships' = DOMAIN ships
         /\ \A n \in DOMAIN ships :
               IF /\ ships[n].status = "running"
                  /\ ships[n].processId # NoPid
                  /\ ships[n].processId \notin alive
               THEN ships'[n] = [ships[n] EXCEPT !.status = "stopped",
                                                  !.stoppedAt = now]
               ELSE ships'[n] = ships[n]]_vars

\* a pass has run over two ships after the daemon lost its handles: the one
\* whose process is alive is still running, the other one is stopped without
\* an exit code
C34_Witness ==
    /\ DOMAIN ships = {"a", "b"}
    /\ handles = <<>>
    /\ ships["a"].status = "running" /\ ships["a"].processId \in alive
    /\ ships["b"].status = "stopped" /\ ships["b"].processId \notin alive
    /\ ships["b"].processId # NoPid
    /\ ships["b"].exitCode = NoCode
    /\ dstate = "running"

\* C35: at most one daemon is started per PID file: at no time do two daemon
\* processes spawned by `daemon start` for the same PID file run side by side
\* (a start finding a live daemon spawns nothing; a stale file is overwritten
\* by the one daemon that is started).
C35_OneDaemonPerPidFile ==
    Cardinality({d \in DOMAIN daemons : daemons[d] # "dead"}) <= 1

\* the positions of the line breaks of a message, and its lines: the pieces
\* between one line break (or the start) and the next (or the end)
BreaksOf(m) == {i \in 1..Len(m) : m[i] = "\n"}

NthBreak(m, n) ==
    CHOOSE i \in BreaksOf(m) : Cardinality({j \in BreaksOf(m) : j < i}) = n - 1

LinesOf(m) ==
    [n \in 1..(Cardinality(BreaksOf(m)) + 1) |->
        LET from == IF n = 1 THEN 1 ELSE NthBreak(m, n - 1) + 1
            to == IF n = Cardinality(BreaksOf(m)) + 1 THEN Len(m)
                  ELSE NthBreak(m, n) - 1
        IN SubSeq(m, from, to)]

RECURSIVE Arrived(_)
Arrived(ms) == IF ms = <<>> THEN <<>> ELSE LinesOf(Head(ms)) \o Arrived(Tail(ms))

LastLines(ls, n) == SubSeq(ls, IF Len(ls) > n THEN Len(ls) - n + 1 ELSE 1, Len(ls))

\* C36: after any sequence of log calls the rolling view holds at most 5
\* lines, and they are the last lines logged, in arrival order, where a
\* message with line breaks counts as its lines, one after the other.
C36_ViewIsLastFiveLines ==
    /\ Len(logBuffer) <= 5
    /\ logBuffer = LastLines(Arrived(messages), 5)

\* more than five lines arrived, some of them through a message with line
\* breaks and text, and the view is full
C36_Witness ==
    /\ Len(Arrived(messages)) > 5
    /\ Len(logBuffer) = 5
    /\ \E i \in 1..Len(messages) :
          /\ includes(messages[i])
          /\ \E j \in 1..Len(messages[i]) : messages[i][j] = "x"
    /\ \E i, j \in 1..Len(logBuffer) : logBuffer[i] # logBuffer[j]

\* C37: a step that deletes one of the upper, work and merge directories of
\* a root leaves nothing mounted at or below the root's merge path: when an
\* umount of the removal failed, no directory of the root is deleted.
C37_NoDeleteWhileMounted ==
    [][\A r \in Roots :
          (dirs[r] \ dirs'[r] # {}) => mounted'[r] = {}]_vars

\* C38: once a later start has recorded a new process for a ship, nothing
\* that belongs to an earlier process of the ship (its close handler, its
\* liveness probe, a stop waiting out its grace period on the earlier pid)
\* marks the ship stopped while the new process is alive.
C38_StaleWriterLeavesNewProcessRunning ==
    [][\A n \in DOMAIN ships :
          (/\ ships[n].status = "running"
           /\ ships[n].processId \in alive'
           /\ \/ \E p \in DOMAIN handles :
                    handles[p].ship = n /\ p # ships[n].processId
              \/ \E c \in Conns :
                    /\ conn[c].pc = "grace"
                    /\ conn[c].ship = n
                    /\ conn[c].pid # ships[n].processId)
          => (n \in DOMAIN ships' /\ ships'[n].status = "running")]_vars

\* C39: when no request is in progress, every live process the daemon has
\* spawned is the processId of a ship row with status running: a deploy
\* whose insert fails, a start naming no row, and a second start of a running
\* ship leave no live process that no row refers to.
C39_EveryLiveProcessRecorded ==
    (\A c \in Conns : conn[c].pc # "grace") =>
        \A p \in alive :
            \E n \in DOMAIN ships :
                ships[n].processId = p /\ ships[n].status = "running"

====
